---- MODULE Spec2Model ----
(***************************************************************************)
(* Model of the subtitle generator (sub_video.py), its downloader          *)
(* (youtube_downloader.py) and the cache admin tool (clean_cache.py).      *)
(*                                                                         *)
(* Python floats are IEEE-754 binary64 numbers.  They are modelled exactly *)
(* as a sign and a binary fixed-point magnitude (a sequence of 15-bit      *)
(* limbs, least significant first, FracLimbs of them after the binary      *)
(* point); every float operation of the code is the exact operation        *)
(* followed by rounding to 53 significant bits, ties to even.              *)
(***************************************************************************)
EXTENDS Integers, Sequences, FiniteSets, TLC

VARIABLES
    pc,               \* position of main / process_media
    args,             \* the arguments process_media was called with
    input_path,       \* local variable input_path (reassigned by the code)
    model_size,       \* local variable model_size (reassigned by the code)
    downloaded_file,  \* local variable downloaded_file
    temp_audio,       \* local variable temp_audio
    word_timestamps,  \* what transcribe() was asked for
    segments_list,    \* "none" until list(segments) has run
    progress,         \* the ProgressTracker
    files,            \* paths that exist on disk
    cache,            \* entries of MODEL_CACHE_DIR
    initial,          \* history: files and cache when the run started
    stages,           \* history: the stages entered, in order
    errors,           \* history: the errors printed or raised
    model_downloads,  \* history: number of download_model calls
    written,          \* history: subtitle files written by this run
    outcome,          \* return of process_media and exit status of main
    call              \* a call of one of the pure functions, with its result

pipeVars == <<pc, args, input_path, model_size, downloaded_file, temp_audio,
              word_timestamps, segments_list, progress, files, cache, initial,
              stages, errors, model_downloads, written, outcome>>
vars == <<pipeVars, call>>

----------------------------------------------------------------------------
(* Binary floating point.                                                  *)

\* Significant bits of a Python float (binary64).
MantissaBits == 53

\* A limb holds 15 bits, so that a product of two limbs is a machine integer
\* of the model checker.
Base == 2^15

\* Limbs after the binary point: every number of the model is a multiple of
\* 2^(-15 * FracLimbs).
FracLimbs == 5

Limb(a, i) == IF i >= 1 /\ i <= Len(a) THEN a[i] ELSE 0

Zeros(n) == [i \in 1..n |-> 0]

RECURSIVE Strip(_)
\* a without its most significant zero limbs.
Strip(a) ==
    IF a = <<>> \/ a[Len(a)] # 0 THEN a ELSE Strip(SubSeq(a, 1, Len(a) - 1))

RECURSIVE AddLimbs(_, _, _, _)
\* The limbs of a + b + c from index i upwards, c the carry into limb i.
AddLimbs(a, b, i, c) ==
    IF i > Len(a) /\ i > Len(b)
    THEN IF c = 0 THEN <<>> ELSE <<c>>
    ELSE LET t == Limb(a, i) + Limb(b, i) + c
         IN  <<t % Base>> \o AddLimbs(a, b, i + 1, t \div Base)

NatAdd(a, b) == AddLimbs(a, b, 1, 0)

RECURSIVE SubLimbs(_, _, _, _)
\* The limbs of a - b - c from index i upwards (a >= b), c the borrow.
SubLimbs(a, b, i, c) ==
    IF i > Len(a)
    THEN <<>>
    ELSE LET t == Limb(a, i) - Limb(b, i) - c
         IN  <<IF t < 0 THEN t + Base ELSE t>>
                 \o SubLimbs(a, b, i + 1, IF t < 0 THEN 1 ELSE 0)

NatSub(a, b) == Strip(SubLimbs(a, b, 1, 0))

RECURSIVE LessFrom(_, _, _)
LessFrom(a, b, i) ==
    IF i = 0 THEN FALSE
    ELSE IF Limb(a, i) # Limb(b, i) THEN Limb(a, i) < Limb(b, i)
    ELSE LessFrom(a, b, i - 1)

NatLess(a, b) == LessFrom(a, b, IF Len(a) > Len(b) THEN Len(a) ELSE Len(b))

RECURSIVE MulLimb(_, _, _, _)
\* The limbs of a * m + c from index i upwards, m one limb.
MulLimb(a, m, i, c) ==
    IF i > Len(a)
    THEN IF c = 0 THEN <<>> ELSE <<c>>
    ELSE LET t == a[i] * m + c
         IN  <<t % Base>> \o MulLimb(a, m, i + 1, t \div Base)

RECURSIVE MulLimbs(_, _, _)
\* a times the number whose limbs are those of b from index j upwards.
MulLimbs(a, b, j) ==
    IF j > Len(b) THEN <<>>
    ELSE NatAdd(MulLimb(a, b[j], 1, 0), <<0>> \o MulLimbs(a, b, j + 1))

NatMul(a, b) == Strip(MulLimbs(a, b, 1))

RECURSIVE NatLimbs(_)
\* The limbs of a natural number, least significant first.
NatLimbs(n) == IF n = 0 THEN <<>> ELSE <<n % Base>> \o NatLimbs(n \div Base)

RECURSIVE LimbsNat(_, _)
\* The natural number whose limbs are those of a from index i upwards.
LimbsNat(a, i) == IF i > Len(a) THEN 0 ELSE a[i] + Base * LimbsNat(a, i + 1)

\* Number of bits of a (a without leading zero limbs).
BitLen(a) ==
    IF a = <<>> THEN 0
    ELSE 15 * (Len(a) - 1)
         + (CHOOSE k \in 1..15 : 2^(k - 1) <= a[Len(a)] /\ a[Len(a)] < 2^k)

\* Bit p of a, bit 0 the least significant.
BitAt(a, p) == (Limb(a, p \div 15 + 1) \div 2^(p % 15)) % 2

\* Are the d least significant bits of a all zero?
LowBitsZero(a, d) ==
    /\ \A i \in 1..(d \div 15) : Limb(a, i) = 0
    /\ Limb(a, d \div 15 + 1) % 2^(d % 15) = 0

\* a with its d least significant bits cleared.
ClearLow(a, d) ==
    [i \in 1..Len(a) |->
        IF i <= d \div 15 THEN 0
        ELSE IF i = d \div 15 + 1 THEN a[i] - (a[i] % 2^(d % 15))
        ELSE a[i]]

\* The natural number 2^d.
PowerOfTwo(d) == Zeros(d \div 15) \o <<2^(d % 15)>>

Zero == [neg |-> FALSE, mant |-> <<>>]

\* The number (-1)^neg * mant * 2^(-15 * FracLimbs).
Num(neg, mant) ==
    LET m == Strip(mant) IN [neg |-> neg /\ m # <<>>, mant |-> m]

\* Round to nearest, ties to even, at MantissaBits significant bits; inexact
\* says that the exact value lies above x by less than its last place.
RoundInexact(x, inexact) ==
    LET d == BitLen(x.mant) - MantissaBits
    IN  IF d <= 0 THEN x
        ELSE LET half == BitAt(x.mant, d - 1) = 1
                 rest == inexact \/ ~LowBitsZero(x.mant, d - 1)
                 odd  == BitAt(x.mant, d) = 1
                 kept == ClearLow(x.mant, d)
             IN  IF half /\ (rest \/ odd)
                 THEN Num(x.neg, NatAdd(kept, PowerOfTwo(d)))
                 ELSE Num(x.neg, kept)

Round(x) == RoundInexact(x, FALSE)

Neg(x) == [x EXCEPT !.neg = ~x.neg /\ x.mant # <<>>]

\* Exact sum.
ExactAdd(x, y) ==
    IF x.neg = y.neg THEN Num(x.neg, NatAdd(x.mant, y.mant))
    ELSE IF NatLess(x.mant, y.mant) THEN Num(y.neg, NatSub(y.mant, x.mant))
    ELSE Num(x.neg, NatSub(x.mant, y.mant))

\* Exact product of x and the integer n.
ExactMulInt(x, n) ==
    IF n < 0 THEN Num(~x.neg, NatMul(x.mant, NatLimbs(-n)))
    ELSE Num(x.neg, NatMul(x.mant, NatLimbs(n)))

\* x < y, exact (Python compares an int with a float exactly).
Less(x, y) == ExactAdd(x, Neg(y)).neg

\* The Python int n as a number.
FromInt(n) ==
    IF n < 0 THEN Num(TRUE, Zeros(FracLimbs) \o NatLimbs(-n))
    ELSE Num(FALSE, Zeros(FracLimbs) \o NatLimbs(n))

\* Float subtraction, and the float product of x and an int n (n is
\* converted to float exactly).
FSub(x, y) == Round(ExactAdd(x, Neg(y)))
FMulInt(x, n) == Round(ExactMulInt(x, n))

\* int(x): truncation toward zero, as an integer of the model.
Trunc(x) ==
    LET n == LimbsNat(x.mant, FracLimbs + 1)
    IN  IF x.neg THEN -n ELSE n

\* The fractional part of a non-negative x, exact.
FracPart(x) ==
    Num(FALSE, SubSeq(x.mant, 1,
                      IF FracLimbs < Len(x.mant) THEN FracLimbs ELSE Len(x.mant)))

RECURSIVE FracDigits(_, _, _)
\* Long division rem/den: k limbs after the binary point, least significant
\* first, with the last remainder.
FracDigits(rem, den, k) ==
    IF k = 0
    THEN [limbs |-> <<>>, rem |-> rem]
    ELSE LET t == rem * Base
             r == FracDigits(t % den, den, k - 1)
         IN  [limbs |-> Append(r.limbs, t \div den), rem |-> r.rem]

\* The float nearest to the decimal whole + num/den (0 <= num < den): what
\* the literal, or a value rounded to that many decimals, is as a float.
FromDecimal(whole, num, den) ==
    LET f == FracDigits(num, den, FracLimbs)
    IN  RoundInexact(Num(FALSE, f.limbs \o NatLimbs(whole)), f.rem # 0)

----------------------------------------------------------------------------
(* format_timestamp                                                        *)

\* f"{n:02d}" and f"{n:03d}" for n >= 0.
Pad2(n) == IF n < 10 THEN "0" \o ToString(n) ELSE ToString(n)
Pad3(n) == IF n < 10 THEN "00" \o ToString(n)
           ELSE IF n < 100 THEN "0" \o ToString(n) ELSE ToString(n)

\* int(x // n) and x % n for a float x >= 0 and an int n > 0; both are exact
\* in Python (fmod is exact).
FloorDiv(x, n) == Trunc(x) \div n
FMod(x, n) == ExactAdd(FromInt(Trunc(x) % n), FracPart(x))

\* f"{x:.3f}" for a float 0 <= x: the exact value rounded to three decimals,
\* ties to even.
Fixed3(x) ==
    LET y    == ExactMulInt(x, 1000)
        n    == Trunc(y)
        f    == FracPart(y)
        half == FromDecimal(0, 1, 2)
        up   == Less(half, f) \/ (f = half /\ n % 2 = 1)
        r    == IF up THEN n + 1 ELSE n
    IN  ToString(r \div 1000) \o "." \o Pad3(r % 1000)

format_timestamp(seconds, format_type) ==
    LET hours   == FloorDiv(seconds, 3600)
        minutes == FloorDiv(FMod(seconds, 3600), 60)
        secs    == FMod(seconds, 60)
    IN  IF format_type = "srt"
        THEN LET milliseconds == Trunc(FMulInt(FSub(secs, FromInt(Trunc(secs))), 1000))
             IN  Pad2(hours) \o ":" \o Pad2(minutes) \o ":" \o Pad2(Trunc(secs))
                     \o "," \o Pad3(milliseconds)
        ELSE IF format_type = "ass"
        THEN LET centiseconds == Trunc(FMulInt(FSub(secs, FromInt(Trunc(secs))), 100))
             IN  ToString(hours) \o ":" \o Pad2(minutes) \o ":" \o Pad2(Trunc(secs))
                     \o "." \o Pad2(centiseconds)
        ELSE Pad2(hours) \o ":" \o Pad2(minutes) \o ":" \o Fixed3(secs)

----------------------------------------------------------------------------
(* create_ass                                                              *)

\* A text is a sequence of tokens; the token " " is white space, every other
\* token holds none.
RECURSIVE Join(_)
Join(tokens) == IF tokens = <<>> THEN "" ELSE Head(tokens) \o Join(Tail(tokens))

RECURSIVE LStrip(_)
LStrip(tokens) ==
    IF tokens # <<>> /\ Head(tokens) = " " THEN LStrip(Tail(tokens)) ELSE tokens

RECURSIVE RStrip(_)
RStrip(tokens) ==
    IF tokens # <<>> /\ tokens[Len(tokens)] = " "
    THEN RStrip(SubSeq(tokens, 1, Len(tokens) - 1)) ELSE tokens

\* str.strip()
strip(tokens) == LStrip(RStrip(tokens))

ASS_COLORS ==
    [yellow |-> "&H00FFFF&", white |-> "&HFFFFFF&", blue |-> "&HFF0000&",
     green |-> "&H00FF00&", red |-> "&H0000FF&", cyan |-> "&HFFFF00&",
     magenta |-> "&HFF00FF&", black |-> "&H000000&"]

\* f"{{\\k{n}}}"
KTag(n) == "{\\k" \o ToString(n) \o "}"

\* int(x * 100) for a float x
Centi(x) == Trunc(FMulInt(x, 100))

RECURSIVE words_text(_, _, _)
\* The tokens the loop over segment.words appends from word i on, last_end
\* being the end of the word before.
words_text(words, i, last_end) ==
    IF i > Len(words) THEN <<>>
    ELSE LET word          == words[i]
             word_duration == FSub(word.end, word.start)
             delay         == FSub(word.start, last_end)
         IN  (IF Less(Zero, delay) THEN <<KTag(Centi(delay)), " ">> ELSE <<>>)
             \o <<KTag(Centi(word_duration))>> \o word.word \o <<" ">>
             \o words_text(words, i + 1, word.end)

\* The Dialogue line create_ass writes for one segment.
dialogue(segment, karaoke, style) ==
    LET start_time == format_timestamp(segment.start, "ass")
        end_time   == format_timestamp(segment.end, "ass")
        text       == strip(segment.text)
    IN  IF karaoke /\ segment.words # <<>>
        THEN "Dialogue: 0," \o start_time \o "," \o end_time \o ",Karaoke,,0,0,0,,"
                 \o Join(strip(words_text(segment.words, 1, segment.start)))
        ELSE "Dialogue: 0," \o start_time \o "," \o end_time \o "," \o style
                 \o ",,0,0,0,," \o Join(text)

\* The lines create_ass writes: header, the two styles, the events.
create_ass(segments, title, karaoke, style, color) ==
    LET ass_color == IF color \in DOMAIN ASS_COLORS THEN ASS_COLORS[color]
                     ELSE ASS_COLORS["white"]
    IN  << "[Script Info]", "Title: " \o title, "ScriptType: v4.00+",
           "WrapStyle: 0", "ScaledBorderAndShadow: yes", "YCbCr Matrix: None",
           "PlayResX: 1920", "PlayResY: 1080", "",
           "[V4+ Styles]",
           "Format: Name, Fontname, Fontsize, PrimaryColour, ...",
           "Style: Default,Arial,48," \o ass_color
               \o ",&HFFFFFF&,&H000000&,&H000000&,0,0,0,0,100,100,0,0,1,2,2,2,20,20,20,1",
           "Style: Karaoke,Arial,48," \o ass_color
               \o ",&HFFFFFF&,&H000000&,&H000000&,0,0,0,0,100,100,0,0,1,2,2,2,20,20,20,1",
           "",
           "[Events]",
           "Format: Layer, Start, End, Style, Name, MarginL, MarginR, MarginV, Effect, Text" >>
        \o [i \in 1..Len(segments) |-> dialogue(segments[i], karaoke, style)]

----------------------------------------------------------------------------
(* auto_select_model                                                       *)

\* 1024 * 1024 * 1024 times x: exact for the ints and floats of the table.
GiB(x) == FMulInt(FMulInt(FMulInt(x, 1024), 1024), 1024)
MiB(x) == FMulInt(FMulInt(x, 1024), 1024)

model_sizes ==
    [large  |-> GiB(FromInt(6)),
     medium |-> GiB(FromDecimal(2, 5, 10)),
     small  |-> GiB(FromInt(1)),
     base   |-> MiB(FromInt(500)),
     tiny   |-> MiB(FromInt(150))]

RECURSIVE sorted_reverse(_)
\* sorted(model_sizes.items(), key=size, reverse=True): the names of S, largest
\* size first.
sorted_reverse(S) ==
    IF S = {} THEN <<>>
    ELSE LET m == CHOOSE x \in S : \A y \in S : ~Less(model_sizes[x], model_sizes[y])
         IN  <<m>> \o sorted_reverse(S \ {m})

\* The available memory with no headroom taken off.
available_without_headroom(kib) == ExactMulInt(FromInt(kib), 1024)

\* memory_available * 0.7, memory_available an int of kib * 1024 bytes.
available_with_headroom(kib) ==
    Round(ExactMulInt(ExactMulInt(FromDecimal(0, 7, 10), kib), 1024))

RECURSIVE first_fit(_, _, _)
\* The loop: the first model of the order whose size is below avail.
first_fit(order, i, avail) ==
    IF i > Len(order) THEN "tiny"
    ELSE IF Less(model_sizes[order[i]], avail) THEN order[i]
    ELSE first_fit(order, i + 1, avail)

\* memory_available is <<>> (None) or <<KiB>>; memory_info is what
\* get_memory_info() gives when asked: <<>> (it raises) or <<available KiB>>.
auto_select_model(memory_available, memory_info) ==
    IF memory_available = <<>> /\ memory_info = <<>> THEN "medium"
    ELSE LET kib == IF memory_available = <<>> THEN memory_info[1]
                    ELSE memory_available[1]
         IN  first_fit(sorted_reverse(DOMAIN model_sizes), 1,
                       available_with_headroom(kib))

----------------------------------------------------------------------------
(* File names                                                              *)

\* A path is a record: kind "file" with directory, stem and extension; kind
\* "url" for a string is_youtube_url matches; kind "none" for None.  A stem is
\* a sequence of characters; "e'" and "u'" stand for two non-ASCII letters.
NoPath == [kind |-> "none", dir |-> "", stem |-> <<>>, ext |-> ""]
File(dir, stem, ext) == [kind |-> "file", dir |-> dir, stem |-> stem, ext |-> ext]

invalid_chars == {"<", ">", ":", "\"", "/", "\\", "|", "?", "*"}
NonAscii == {"e'", "u'"}

\* filename[:100]
MaxNameLen == 100

\* re.sub(r'[^\x00-\x7F]+', '_', s): each run of non-ASCII characters
\* becomes one underscore.
sub_non_ascii(s) ==
    LET marked == [i \in 1..Len(s) |->
                      IF s[i] \notin NonAscii THEN s[i]
                      ELSE IF i > 1 /\ s[i - 1] \in NonAscii THEN ""
                      ELSE "_"]
        kept(c) == c # ""
    IN  SelectSeq(marked, kept)

sanitize_filename(filename) ==
    LET replaced == [i \in 1..Len(filename) |->
                        IF filename[i] \in invalid_chars \/ filename[i] = " "
                        THEN "_" ELSE filename[i]]
        ascii    == sub_non_ascii(replaced)
    IN  IF Len(ascii) > MaxNameLen THEN SubSeq(ascii, 1, MaxNameLen) ELSE ascii

\* str.lower() on the extensions and format names of the model.
lower(str) ==
    CASE str = "ASS" -> "ass"
      [] str = "SRT" -> "srt"
      [] str = "MKV" -> "mkv"
      [] str = "MP4" -> "mp4"
      [] str = "Y" -> "y"
      [] OTHER -> str

is_youtube_url(path) == path.kind = "url"

\* input_path.lower().endswith(('.mp4', '.avi', '.mkv', '.mov'))
is_video(path) == lower(path.ext) \in {"mp4", "avi", "mkv", "mov"}

----------------------------------------------------------------------------
(* process_media: inputs and environment                                   *)

\* Longest subtitle_formats list passed to process_media.
MaxFormats == 2

FormatNames == {"srt", "ass", "ASS"}
FormatLists == UNION {[1..n -> FormatNames] : n \in 0..MaxFormats}

OutputDir == "out"

InputPaths ==
    { [kind |-> "url", dir |-> "", stem |-> <<>>, ext |-> ""],
      File("in", <<"m", "y", " ", "v">>, "MKV"),
      File("in", <<"t", "a", "l", "k">>, "mp3") }

\* What download_youtube_video can return: (False, message), or (True, path)
\* with the path yt-dlp reported or the fallback search found.
DownloadOutcomes ==
    { [success |-> FALSE,
       result  |-> [kind |-> "error", dir |-> "", stem |-> <<>>, ext |-> ""]],
      [success |-> TRUE, result |-> File(OutputDir, <<"v", "i", "d">>, "mp4")],
      [success |-> TRUE, result |-> File(OutputDir, <<"v", "i", "d">>, "webm")],
      [success |-> TRUE, result |-> File(OutputDir, <<"e'", "1">>, "mp4")] }

\* What get_memory_info can report: nothing (it raised), or MemAvailable.
MemoryInfos == {<<>>, <<3 * 1024 * 1024>>}

ModelNames == DOMAIN model_sizes
CacheNames == {"small", "medium"}
\* An entry of MODEL_CACHE_DIR: absent, a plain file, a directory without a
\* weight file, or a directory holding model.bin or pytorch_model.bin.
EntryKinds == {"absent", "file", "dir", "model"}

temp_audio_path(output_dir, path) ==
    File(output_dir, Append(sanitize_filename(path.stem), "_temp"), "wav")

Idle == [fn |-> "none"]
NoProgress == [total_steps |-> 0, current_step |-> 0]
NoOutcome == [value |-> "running", exit_status |-> -1]

\* main, lines 434-452: the format list is lower-cased before the call.
main_formats(formats) == [i \in DOMAIN formats |-> lower(formats[i])]

Init ==
    /\ pc = "start"
    /\ \E inp \in InputPaths, ms \in {"auto"} \cup CacheNames,
          fs \in FormatLists, caller \in {"main", "direct"},
          keep \in BOOLEAN, kar \in BOOLEAN, force \in BOOLEAN :
          args = [input_path |-> inp, output_dir |-> OutputDir,
                  model_size |-> ms, keep_video |-> keep,
                  subtitle_formats |-> IF caller = "main"
                                       THEN main_formats(fs) ELSE fs,
                  karaoke |-> kar, force_download |-> force]
    /\ input_path = args.input_path
    /\ model_size = args.model_size
    /\ downloaded_file = NoPath
    /\ temp_audio = NoPath
    /\ word_timestamps = <<>>
    /\ segments_list = "none"
    /\ progress = NoProgress
    /\ \E pre \in SUBSET {temp_audio_path(OutputDir, input_path)} :
          files = pre \cup (IF is_youtube_url(input_path) THEN {} ELSE {input_path})
    /\ \E c \in {k \in [CacheNames -> EntryKinds] : k["medium"] \in {"absent", "model"}} :
          cache = [m \in ModelNames |-> IF m \in CacheNames THEN c[m] ELSE "absent"]
    /\ initial = [files |-> files, cache |-> cache]
    /\ stages = <<>>
    /\ errors = <<>>
    /\ model_downloads = 0
    /\ written = {}
    /\ outcome = NoOutcome
    /\ call = Idle

----------------------------------------------------------------------------
(* ProgressTracker                                                         *)

total_steps(path) == IF is_youtube_url(path) THEN 5 ELSE 4
ProgressTracker(n) == [total_steps |-> n, current_step |-> 0]
start_step(p) == [p EXCEPT !.current_step = @ + 1]

----------------------------------------------------------------------------
(* process_media: model resolution and cache                               *)

is_model_cached(c, m) == c[m] \in {"dir", "model"}

\* download_model(model_size, output_dir=MODEL_CACHE_DIR): the library call
\* the code relies on to leave the model in the cache directory.
download_model(c, m) == [c EXCEPT ![m] = "model"]

\* Line 307: the branch that skips ensure_model_cached.
uses_cache(force_download, c, m) == ~force_download /\ is_model_cached(c, m)

\* Lines 285-293.
Start ==
    /\ pc = "start"
    /\ progress' = ProgressTracker(total_steps(input_path))
    /\ pc' = "resolve_model"
    /\ UNCHANGED <<args, input_path, model_size, downloaded_file, temp_audio,
                   word_timestamps, segments_list, files, cache, initial,
                   stages, errors, model_downloads, written, outcome, call>>

\* Lines 295-304.
ResolveModel ==
    /\ pc = "resolve_model"
    /\ IF model_size = "auto"
       THEN /\ \E info \in MemoryInfos :
                  model_size' = auto_select_model(<<>>, info)
            /\ progress' = start_step(progress)
            /\ stages' = Append(stages, "resolve_model")
       ELSE UNCHANGED <<model_size, progress, stages>>
    /\ pc' = "ensure_model"
    /\ UNCHANGED <<args, input_path, downloaded_file, temp_audio,
                   word_timestamps, segments_list, files, cache, initial,
                   errors, model_downloads, written, outcome, call>>

\* Lines 306-312 with ensure_model_cached, lines 263-278.
EnsureModel ==
    /\ pc = "ensure_model"
    /\ stages' = Append(stages, "ensure_model")
    /\ IF uses_cache(args.force_download, cache, model_size)
       THEN /\ progress' = [progress EXCEPT !.total_steps = @ - 1]
            /\ pc' = "download"
            /\ UNCHANGED <<cache, model_downloads, errors>>
       ELSE IF ~is_model_cached(cache, model_size)
       THEN /\ progress' = start_step(progress)
            /\ model_downloads' = model_downloads + 1
            /\ \E ok \in BOOLEAN :
                  IF ok
                  THEN /\ cache' = download_model(cache, model_size)
                       /\ pc' = "download"
                       /\ UNCHANGED errors
                  ELSE /\ errors' = Append(errors, "model_download_error")
                       /\ pc' = "raise"
                       /\ UNCHANGED cache
       ELSE /\ pc' = "download"
            /\ UNCHANGED <<progress, cache, model_downloads, errors>>
    /\ UNCHANGED <<args, input_path, model_size, downloaded_file, temp_audio,
                   word_timestamps, segments_list, files, initial,
                   written, outcome, call>>

----------------------------------------------------------------------------
(* process_media: download, copy, extraction                               *)

\* A run that asks the downloader again after a failure.
retry_download(success) == IF success THEN "copy" ELSE "download"

\* A run that carries on whatever the downloader returned.
ignore_download_failure(success) == "copy"

\* Lines 321-323: where the run goes after the downloader returned.
after_download(success) == IF success THEN "copy" ELSE "return"

\* Lines 314-328.
DownloadVideo ==
    /\ pc = "download"
    /\ IF is_youtube_url(input_path)
       THEN \E r \in DownloadOutcomes :
              /\ progress' = start_step(progress)
              /\ stages' = Append(stages, "download")
              /\ files' = IF r.success THEN files \cup {r.result} ELSE files
              /\ errors' = IF r.success THEN errors
                           ELSE Append(errors, "download_error")
              /\ pc' = after_download(r.success)
              /\ IF pc' = "copy"
                 THEN /\ downloaded_file' = r.result
                      /\ input_path' = r.result
                 ELSE UNCHANGED <<downloaded_file, input_path>>
       ELSE /\ pc' = "extract"
            /\ UNCHANGED <<progress, stages, files, errors, downloaded_file,
                           input_path>>
    /\ UNCHANGED <<args, model_size, temp_audio, word_timestamps,
                   segments_list, cache, initial, model_downloads, written,
                   outcome, call>>

\* Lines 331-333.
sanitized_path(output_dir, path) ==
    File(output_dir, sanitize_filename(path.stem), "mp4")

\* Lines 330-339.  shutil.copy2 raises when the source cannot be read.
CopySanitized ==
    /\ pc = "copy"
    /\ IF input_path # sanitized_path(args.output_dir, input_path)
       THEN /\ progress' = start_step(progress)
            /\ \E ok \in BOOLEAN :
                  IF ok /\ input_path \in files
                  THEN /\ files' = files \cup
                                   {sanitized_path(args.output_dir, input_path)}
                       /\ input_path' = sanitized_path(args.output_dir, input_path)
                       /\ pc' = "extract"
                       /\ UNCHANGED errors
                  ELSE /\ errors' = Append(errors, "copy_error")
                       /\ pc' = "raise"
                       /\ UNCHANGED <<files, input_path>>
       ELSE /\ pc' = "extract"
            /\ UNCHANGED <<progress, files, input_path, errors>>
    /\ UNCHANGED <<args, model_size, downloaded_file, temp_audio,
                   word_timestamps, segments_list, cache, initial, stages,
                   model_downloads, written, outcome, call>>

\* An extract_audio that prints the error and returns.
swallow_extract_error(ok) == "load"

\* extract_audio, lines 97-99: where the run goes after ffmpeg.run.
after_extract(ok) == IF ok THEN "load" ELSE "raise"

\* Lines 341-353 with extract_audio, lines 85-99.
ExtractAudio ==
    /\ pc = "extract"
    /\ temp_audio' = temp_audio_path(args.output_dir, input_path)
    /\ progress' = start_step(progress)
    /\ IF is_video(input_path)
       THEN /\ stages' = Append(stages, "extract")
            /\ \E ran \in BOOLEAN :
                  LET ok == ran /\ input_path \in files
                  IN  /\ files' = IF ok THEN files \cup {temp_audio'} ELSE files
                      /\ errors' = IF ok THEN errors
                                   ELSE Append(errors, "extract_error")
                      /\ pc' = after_extract(ok)
       ELSE /\ pc' = "load"
            /\ UNCHANGED <<stages, files, errors>>
    /\ UNCHANGED <<args, input_path, model_size, downloaded_file,
                   word_timestamps, segments_list, cache, initial,
                   model_downloads, written, outcome, call>>

----------------------------------------------------------------------------
(* process_media: transcription and writers                                *)

\* Lines 355-362.
LoadModel ==
    /\ pc = "load"
    /\ progress' = start_step(progress)
    /\ stages' = Append(stages, "transcribe")
    /\ \E ok \in BOOLEAN :
          IF ok
          THEN pc' = "transcribe" /\ UNCHANGED errors
          ELSE pc' = "raise" /\ errors' = Append(errors, "model_load_error")
    /\ UNCHANGED <<args, input_path, model_size, downloaded_file, temp_audio,
                   word_timestamps, segments_list, files, cache, initial,
                   model_downloads, written, outcome, call>>

\* "ass" in subtitle_formats
contains(formats, name) == \E i \in DOMAIN formats : formats[i] = name

\* Line 370.
wants_word_timestamps(formats, karaoke) == contains(formats, "ass") /\ karaoke

\* Lines 364-377.
Transcribe ==
    /\ pc = "transcribe"
    /\ progress' = start_step(progress)
    /\ word_timestamps' = <<wants_word_timestamps(args.subtitle_formats,
                                                 args.karaoke)>>
    /\ \E ok \in BOOLEAN :
          IF ok
          THEN /\ segments_list' = "list"
               /\ pc' = "write"
               /\ UNCHANGED errors
          ELSE /\ errors' = Append(errors, "transcribe_error")
               /\ pc' = "raise"
               /\ UNCHANGED segments_list
    /\ UNCHANGED <<args, input_path, model_size, downloaded_file, temp_audio,
                   files, cache, initial, stages, model_downloads, written,
                   outcome, call>>

\* Lines 382-391: the writer the loop runs for one format name.
writer_for(fmt) ==
    IF lower(fmt) = "srt" THEN "create_srt"
    ELSE IF lower(fmt) = "ass" THEN "create_ass"
    ELSE "none"

\* Lines 379-393: one record per writer call of the loop.
subtitle_writes(formats, output_dir, name, karaoke, segments) ==
    { [writer  |-> writer_for(formats[i]),
       path    |-> File(output_dir, name, lower(formats[i])),
       karaoke |-> writer_for(formats[i]) = "create_ass" /\ karaoke,
       segments |-> segments] :
      i \in {j \in DOMAIN formats : writer_for(formats[j]) # "none"} }

WriteSubtitles ==
    /\ pc = "write"
    /\ progress' = start_step(progress)
    /\ stages' = Append(stages, "write")
    /\ written' = subtitle_writes(args.subtitle_formats, args.output_dir,
                                  sanitize_filename(input_path.stem),
                                  args.karaoke, segments_list)
    /\ files' = files \cup {w.path : w \in written'}
    /\ pc' = "cleanup"
    /\ UNCHANGED <<args, input_path, model_size, downloaded_file, temp_audio,
                   word_timestamps, segments_list, cache, initial, errors,
                   model_downloads, outcome, call>>

----------------------------------------------------------------------------
(* process_media: cleanup and exit                                         *)

\* A cleanup that forgets the sanitized copy.
cleanup_keeps_copy(fs, temp, downloaded, input, keep_video) ==
    IF downloaded # NoPath /\ ~keep_video THEN (fs \ {temp}) \ {downloaded}
    ELSE fs \ {temp}

\* Lines 395-408: the files left on disk by the cleanup.
cleanup(fs, temp, downloaded, input, keep_video) ==
    LET no_temp == fs \ {temp}
    IN  IF downloaded # NoPath /\ ~keep_video
        THEN (no_temp \ {downloaded}) \ (IF downloaded # input THEN {input} ELSE {})
        ELSE no_temp

\* Lines 395-413.
Cleanup ==
    /\ pc = "cleanup"
    /\ stages' = Append(stages, "cleanup")
    /\ files' = cleanup(files, temp_audio, downloaded_file, input_path,
                        args.keep_video)
    /\ pc' = "return"
    /\ UNCHANGED <<args, input_path, model_size, downloaded_file, temp_audio,
                   word_timestamps, segments_list, progress, cache, initial,
                   errors, model_downloads, written, outcome, call>>

\* process_media has no return value on either of its two returns (lines 323
\* and 413) and main (lines 439-455) ends after the call; an exception that
\* leaves process_media is not caught by main.
exit_of(how) ==
    IF how = "raise" THEN [value |-> "exception", exit_status |-> 1]
    ELSE [value |-> "None", exit_status |-> 0]

Exit ==
    /\ pc \in {"return", "raise"}
    /\ outcome' = exit_of(pc)
    /\ pc' = "exit"
    /\ UNCHANGED <<args, input_path, model_size, downloaded_file, temp_audio,
                   word_timestamps, segments_list, progress, files, cache,
                   initial, stages, errors, model_downloads, written, call>>

Next ==
    \/ Start
    \/ ResolveModel
    \/ EnsureModel
    \/ DownloadVideo
    \/ CopySanitized
    \/ ExtractAudio
    \/ LoadModel
    \/ Transcribe
    \/ WriteSubtitles
    \/ Cleanup
    \/ Exit

Spec == Init /\ [][Next]_vars

----------------------------------------------------------------------------
(* Calls of the pure functions.  The pipeline variables stay idle; call    *)
(* holds the arguments and, once the function has run, its result.         *)

NoArgs == [input_path |-> NoPath, output_dir |-> OutputDir, model_size |-> "auto",
           keep_video |-> TRUE, subtitle_formats |-> <<>>, karaoke |-> FALSE,
           force_download |-> FALSE]

IdlePipeline ==
    /\ pc = "idle"
    /\ args = NoArgs
    /\ input_path = NoPath
    /\ model_size = "auto"
    /\ downloaded_file = NoPath
    /\ temp_audio = NoPath
    /\ word_timestamps = <<>>
    /\ segments_list = "none"
    /\ progress = NoProgress
    /\ files = {}
    /\ cache = [m \in ModelNames |-> "absent"]
    /\ initial = [files |-> files, cache |-> cache]
    /\ stages = <<>>
    /\ errors = <<>>
    /\ model_downloads = 0
    /\ written = {}
    /\ outcome = NoOutcome

\* Largest multiple of MemStep KiB offered as available memory.
MaxMemSteps == 192
MemStep == 64 * 1024

\* Footprints of the table in KiB.
FootprintKiB ==
    [large |-> 6 * 1024 * 1024, medium |-> 2560 * 1024, small |-> 1024 * 1024,
     base |-> 500 * 1024, tiny |-> 150 * 1024]

\* Available memory in KiB: a coarse grid and the two integers around each
\* point where 0.7 * m crosses a footprint.
MemoryGrid ==
    {k * MemStep : k \in 0..MaxMemSteps}
    \cup UNION {{(10 * FootprintKiB[n]) \div 7, (10 * FootprintKiB[n]) \div 7 + 1} :
                n \in DOMAIN FootprintKiB}

SelectInit ==
    /\ IdlePipeline
    /\ \E m \in MemoryGrid, explicit \in BOOLEAN :
          call = [fn |-> "auto_select_model",
                  memory_available |-> IF explicit THEN <<m>> ELSE <<>>,
                  memory_info |-> IF explicit THEN <<>> ELSE <<m>>,
                  m |-> m, result |-> "pending"]

SelectCall ==
    /\ call.fn = "auto_select_model" /\ call.result = "pending"
    /\ call' = [call EXCEPT !.result =
                   auto_select_model(call.memory_available, call.memory_info)]
    /\ UNCHANGED pipeVars

SpecSelect == SelectInit /\ [][SelectCall]_vars

\* Thousandths offered as the fractional part of a time offset.
MaxMillis == 500
TimeWholes == {0, 1, 59, 3599, 3661, 359998}

\* A time offset is the float of a decimal literal whole + num/den.
Seconds(t) == FromDecimal(t.whole, t.num, t.den)

TimeOffsets ==
    {[whole |-> w, num |-> k, den |-> 1000] : w \in TimeWholes, k \in 0..MaxMillis}
    \cup {[whole |-> 3661, num |-> 2345, den |-> 10000]}

TimeInit ==
    /\ IdlePipeline
    /\ \E t \in TimeOffsets, f \in {"srt", "ass", "vtt"} :
          call = [fn |-> "format_timestamp", seconds |-> t, format_type |-> f,
                  result |-> "pending"]

TimeCall ==
    /\ call.fn = "format_timestamp" /\ call.result = "pending"
    /\ call' = [call EXCEPT !.result =
                   format_timestamp(Seconds(call.seconds), call.format_type)]
    /\ UNCHANGED pipeVars

SpecTime == TimeInit /\ [][TimeCall]_vars

\* Most words in the segment given to create_ass.
MaxWords == 2
\* Word boundaries, in hundredths of a second.
WordTimes == {0, 29, 50, 60, 100}
WordTexts == << <<" ", "hi">>, <<" ", "there">>, <<" ", "you">> >>

WordSpans == {w \in [start : WordTimes, end : WordTimes] : w.start < w.end}
WordLists == UNION {[1..n -> WordSpans] : n \in 0..MaxWords}

Hundredths(c) == FromDecimal(c \div 100, c % 100, 100)

\* The segment whisper would hand over for the word spans ws.
Segment(ws) ==
    [start |-> Hundredths(0), end |-> Hundredths(100),
     text  |-> <<" ", "hi", " ", "there">>,
     words |-> [i \in DOMAIN ws |->
                  [start |-> Hundredths(ws[i].start), end |-> Hundredths(ws[i].end),
                   word |-> WordTexts[((i - 1) % Len(WordTexts)) + 1]]]]

AssInit ==
    /\ IdlePipeline
    /\ \E ws \in WordLists, kar \in BOOLEAN :
          call = [fn |-> "create_ass", words |-> ws, karaoke |-> kar,
                  result |-> "pending"]

AssCall ==
    /\ call.fn = "create_ass" /\ call.result = "pending"
    /\ call' = [call EXCEPT !.result =
                   create_ass(<<Segment(call.words)>>, "t", call.karaoke,
                              "Default", "white")]
    /\ UNCHANGED pipeVars

SpecAss == AssInit /\ [][AssCall]_vars

----------------------------------------------------------------------------
(* Properties of process_media                                             *)

Range(seq) == {seq[i] : i \in DOMAIN seq}

StageRank(stage) ==
    CASE stage = "resolve_model" -> 1
      [] stage = "ensure_model"  -> 2
      [] stage = "download"      -> 3
      [] stage = "extract"       -> 4
      [] stage = "transcribe"    -> 5
      [] stage = "write"         -> 6
      [] stage = "cleanup"       -> 7

\* C1: the stages a run has entered are in the order resolve model, ensure
\* model, download, extract, transcribe, write, cleanup, none of them twice;
\* model resolution only for "auto", download only for a URL, extraction only
\* for video; every subtitle writer was given the materialized list.
StagesInOrder ==
    /\ \A i, j \in DOMAIN stages :
          i < j => StageRank(stages[i]) < StageRank(stages[j])
    /\ "resolve_model" \in Range(stages) => args.model_size = "auto"
    /\ "download" \in Range(stages) => is_youtube_url(args.input_path)
    /\ "extract" \in Range(stages) =>
          is_youtube_url(args.input_path) \/ is_video(args.input_path)
    /\ \A w \in written : w.segments = "list"
    /\ written # {} => segments_list = "list"

\* A finished run of a URL with "auto" that went through all seven stages.
AllStagesRun ==
    /\ pc = "exit"
    /\ stages = <<"resolve_model", "ensure_model", "download", "extract",
                  "transcribe", "write", "cleanup">>
    /\ written # {}

\* C2: after a successful run the temporary wav does not exist, and for a URL
\* with keep_video false neither the downloaded file nor its sanitized copy
\* exists.
CleanupRemovesFiles ==
    (pc = "exit" /\ "cleanup" \in Range(stages)) =>
        /\ File(args.output_dir,
                Append(sanitize_filename(input_path.stem), "_temp"), "wav")
              \notin files
        /\ (is_youtube_url(args.input_path) /\ ~args.keep_video) =>
              /\ downloaded_file \notin files
              /\ File(args.output_dir, sanitize_filename(downloaded_file.stem), "mp4")
                    \notin files

\* A successful run of a URL, keep_video false, that extracted audio from a
\* sanitized copy distinct from the downloaded file.
CleanedAfterCopy ==
    /\ pc = "exit"
    /\ "cleanup" \in Range(stages)
    /\ "extract" \in Range(stages)
    /\ ~args.keep_video
    /\ downloaded_file # NoPath
    /\ downloaded_file # input_path

\* C3: once the downloader has returned failure the error is printed and the
\* run ends: no copy, no extraction, no model load, no transcription, no
\* subtitle file.
DownloadFailureEndsRun ==
    "download_error" \in Range(errors) =>
        /\ pc \in {"return", "exit"}
        /\ errors[Len(errors)] = "download_error"
        /\ input_path = args.input_path
        /\ downloaded_file = NoPath
        /\ temp_audio = NoPath
        /\ files = initial.files
        /\ Range(stages) \cap {"extract", "transcribe", "write", "cleanup"} = {}
        /\ word_timestamps = <<>>
        /\ segments_list = "none"
        /\ written = {}

\* A run that ended after the downloader failed.
EndedByDownloadFailure ==
    /\ pc = "exit"
    /\ "download_error" \in Range(errors)
    /\ "download" \in Range(stages)

\* C4: once extraction has failed the error leaves process_media: no model
\* load, no transcription, no writer and no cleanup, and the downloaded video
\* and its sanitized copy are still on disk, whatever keep_video is.
ExtractFailureAborts ==
    "extract_error" \in Range(errors) =>
        /\ pc \in {"raise", "exit"}
        /\ pc = "exit" => outcome.value = "exception"
        /\ Range(stages) \cap {"transcribe", "write", "cleanup"} = {}
        /\ word_timestamps = <<>>
        /\ segments_list = "none"
        /\ written = {}
        /\ downloaded_file # NoPath =>
              downloaded_file \in files /\ input_path \in files

\* An aborted run of a URL, keep_video false, whose sanitized copy was made
\* before extraction failed.
LeakedAfterExtractFailure ==
    /\ pc = "exit"
    /\ "extract_error" \in Range(errors)
    /\ ~args.keep_video
    /\ downloaded_file # NoPath
    /\ downloaded_file # input_path
    /\ {downloaded_file, input_path} \subseteq files

\* C5: a run ended by a downloader failure does not end with the return value
\* and exit status of a run that wrote its subtitle files (None and 0).
FailureIsDistinguishable ==
    (pc = "exit" /\ "download_error" \in Range(errors)) =>
        outcome # [value |-> "None", exit_status |-> 0]

\* C6: with force_download a download is triggered even for a cached model;
\* without it a download is triggered exactly when the model is not cached,
\* and a cached model leaves the cache as it was.
ForceDownloadTriggersDownload ==
    pc \in {"download", "copy", "extract", "load", "transcribe", "write",
            "cleanup", "return", "raise", "exit"} =>
        LET was_cached == is_model_cached(initial.cache, model_size)
        IN  /\ args.force_download => model_downloads > 0
            /\ ~args.force_download => (model_downloads > 0 <=> ~was_cached)
            /\ (~args.force_download /\ was_cached) => cache = initial.cache

\* C7: word timestamps are requested exactly when karaoke is set and the
\* writer loop runs the ASS writer for one of the formats.
WordTimestampsIffKaraokeAss ==
    word_timestamps # <<>> =>
        word_timestamps[1] =
            (args.karaoke /\ \E i \in DOMAIN args.subtitle_formats :
                                writer_for(args.subtitle_formats[i]) = "create_ass")

----------------------------------------------------------------------------
(* Properties of the pure functions                                        *)

\* The largest footprint strictly below 0.7 * m KiB, in exact arithmetic;
\* "tiny" when there is none.
LargestFit(m) ==
    LET fits == {n \in DOMAIN FootprintKiB : 10 * FootprintKiB[n] < 7 * m}
    IN  IF fits = {} THEN "tiny"
        ELSE CHOOSE n \in fits : \A k \in fits : FootprintKiB[k] <= FootprintKiB[n]

\* C8: auto_select_model(m) is the model with the largest footprint strictly
\* below 0.7 * m, "tiny" when none is; 3 GiB gives small, 10 GiB gives large.
AutoSelectLargestFit ==
    (call.fn = "auto_select_model" /\ call.result # "pending") =>
        /\ call.result = LargestFit(call.m)
        /\ call.m = 3 * 1024 * 1024 => call.result = "small"
        /\ call.m = 10 * 1024 * 1024 => call.result = "large"

\* The call for the first whole number of KiB at which medium fits.
MediumJustFits ==
    /\ call.fn = "auto_select_model"
    /\ call.m = (10 * FootprintKiB["medium"]) \div 7 + 1
    /\ call.result = "medium"

\* The timestamp of the decimal offset t in exact arithmetic, the fraction
\* truncated to milliseconds (srt) or centiseconds (ass).
TruncatedTimestamp(t, format_type) ==
    LET hours   == t.whole \div 3600
        minutes == (t.whole % 3600) \div 60
        secs    == t.whole % 60
    IN  IF format_type = "srt"
        THEN Pad2(hours) \o ":" \o Pad2(minutes) \o ":" \o Pad2(secs) \o ","
                 \o Pad3((t.num * 1000) \div t.den)
        ELSE ToString(hours) \o ":" \o Pad2(minutes) \o ":" \o Pad2(secs) \o "."
                 \o Pad2((t.num * 100) \div t.den)

\* C9: format_timestamp(s, "srt") is HH:MM:SS,mmm and format_timestamp(s,
\* "ass") is H:MM:SS.cc with the fraction of s truncated, never rounded.
TimestampTruncates ==
    (call.fn = "format_timestamp" /\ call.result # "pending"
        /\ call.format_type \in {"srt", "ass"}) =>
        call.result = TruncatedTimestamp(call.seconds, call.format_type)

RECURSIVE KaraokeTokens(_, _, _)
\* The karaoke text of the word spans ws from word i on, in whole
\* centiseconds: a gap tag when the gap is positive, the duration tag, the
\* word.
KaraokeTokens(ws, i, last_end) ==
    IF i > Len(ws) THEN <<>>
    ELSE (IF ws[i].start > last_end
          THEN <<KTag(ws[i].start - last_end), " ">> ELSE <<>>)
         \o <<KTag(ws[i].end - ws[i].start)>>
         \o WordTexts[((i - 1) % Len(WordTexts)) + 1] \o <<" ">>
         \o KaraokeTokens(ws, i + 1, ws[i].end)

\* C10: with karaoke on and words present the dialogue text carries, for each
\* word, a gap tag of gap * 100 when the gap is positive, then a tag of
\* (end - start) * 100, then the word; 50, 10, 40 for (0, 0.5), (0.6, 1.0).
KaraokeTagsAreCentiseconds ==
    (call.fn = "create_ass" /\ call.result # "pending" /\ call.karaoke
        /\ call.words # <<>>) =>
        call.result[Len(call.result)] =
            "Dialogue: 0,0:00:00.00,0:00:01.00,Karaoke,,0,0,0,,"
                \o Join(strip(KaraokeTokens(call.words, 1, 0)))

----------------------------------------------------------------------------
(* create_srt                                                              *)

\* A block numbered from zero, as enumerate without start=1 would give.
srt_block_from_zero(i, segment) ==
    << ToString(i - 1),
       format_timestamp(segment.start, "srt") \o " --> "
           \o format_timestamp(segment.end, "srt"),
       Join(strip(segment.text)), "" >>

\* The lines of f"{i}\n{start_time} --> {end_time}\n{text}\n\n".
srt_block(i, segment) ==
    << ToString(i),
       format_timestamp(segment.start, "srt") \o " --> "
           \o format_timestamp(segment.end, "srt"),
       Join(strip(segment.text)), "" >>

RECURSIVE srt_blocks(_, _)
\* The lines written for the segments from the i-th on.
srt_blocks(segments, i) ==
    IF i > Len(segments) THEN <<>>
    ELSE srt_block(i, segments[i]) \o srt_blocks(segments, i + 1)

\* The lines create_srt writes to output_path.
create_srt(segments) == srt_blocks(segments, 1)

\* Most segments given to create_srt.
MaxSegments == 3
\* Segment boundaries, in tenths of a second.
SegmentTimes == {0, 10, 25, 40}
SegmentTexts == { <<" ", "a">>, <<"b", " ", "c", " ", " ">> }

SegmentSpans ==
    {g \in [start : SegmentTimes, end : SegmentTimes, text : SegmentTexts] :
        g.start < g.end /\ ~\E t \in SegmentTimes : g.start < t /\ t < g.end}
SegmentLists == UNION {[1..n -> SegmentSpans] : n \in 0..MaxSegments}

Tenths(d) == FromDecimal(d \div 10, d % 10, 10)

\* The segment objects whisper would hand over for the spans gs.
Segments(gs) ==
    [i \in DOMAIN gs |->
        [start |-> Tenths(gs[i].start), end |-> Tenths(gs[i].end),
         text |-> gs[i].text]]

SrtInit ==
    /\ IdlePipeline
    /\ \E gs \in SegmentLists :
          call = [fn |-> "create_srt", segments |-> gs, result |-> "pending"]

SrtCall ==
    /\ call.fn = "create_srt" /\ call.result = "pending"
    /\ call' = [call EXCEPT !.result = create_srt(Segments(call.segments))]
    /\ UNCHANGED pipeVars

SpecSrt == SrtInit /\ [][SrtCall]_vars

\* C11: for n segments create_srt writes n blocks in order; block k is the
\* index k, the line "start --> end" in SRT format of segment k, the text of
\* segment k without leading and trailing white space, and one blank line.
SrtBlocksInOrder ==
    (call.fn = "create_srt" /\ call.result # "pending") =>
        /\ Len(call.result) = 4 * Len(call.segments)
        /\ \A k \in DOMAIN call.segments :
              LET g    == call.segments[k]
                  text == call.result[4 * k - 1]
              IN  /\ call.result[4 * k - 3] = ToString(k)
                  /\ call.result[4 * k - 2] =
                        format_timestamp(Tenths(g.start), "srt") \o " --> "
                            \o format_timestamp(Tenths(g.end), "srt")
                  /\ text = (IF g.text = <<" ", "a">> THEN "a" ELSE "b c")
                  /\ call.result[4 * k] = ""

\* The three segments (0, 1), (1, 2.5), (2.5, 4) written as three blocks.
ThreeSrtBlocks ==
    /\ call.fn = "create_srt"
    /\ Len(call.segments) = 3
    /\ call.segments[1].start = 0 /\ call.segments[2].start = 10
    /\ call.segments[3].start = 25
    /\ call.result # "pending"
    /\ Len(call.result) = 12
    /\ call.result[5] = "2"
    /\ call.result[6] = "00:00:01,000 --> 00:00:02,500"

----------------------------------------------------------------------------
(* Calls of sanitize_filename                                              *)

\* Longest short name given to sanitize_filename.
MaxNameChars == 3

\* The characters of the names: a letter of each case, a digit, the
\* underscore, a space, an invalid character, two non-ASCII letters, and two
\* ASCII punctuation marks.
NameChars == {"a", "Z", "7", "_", " ", ":", "e'", "u'", "-", "."}

ShortNames == UNION {[1..n -> NameChars] : n \in 0..MaxNameChars}
\* Names around the length limit.
LongNames ==
    {[i \in 1..n |-> IF i % 50 = 0 THEN c ELSE "a"] :
        n \in {MaxNameLen - 1, MaxNameLen, MaxNameLen + 1, MaxNameLen + 20},
        c \in {"a", " ", "e'"}}

SanitizeInit ==
    /\ IdlePipeline
    /\ \E name \in ShortNames \cup LongNames :
          call = [fn |-> "sanitize_filename", filename |-> name,
                  result |-> "pending"]

SanitizeCall ==
    /\ call.fn = "sanitize_filename" /\ call.result = "pending"
    /\ call' = [call EXCEPT !.result = <<sanitize_filename(call.filename)>>]
    /\ UNCHANGED pipeVars

SpecSanitize == SanitizeInit /\ [][SanitizeCall]_vars

\* C12: sanitize_filename returns at most 100 characters, each an ASCII
\* letter, a digit or the underscore.
SanitizedIsConstrained ==
    (call.fn = "sanitize_filename" /\ call.result # "pending") =>
        /\ Len(call.result[1]) <= 100
        /\ \A i \in DOMAIN call.result[1] :
              call.result[1][i] \in {"a", "Z", "7", "_"}

----------------------------------------------------------------------------
(* Concurrent invocations against one cache.  Each invocation runs lines   *)
(* 306-312 and ensure_model_cached; cache and model_downloads are shared,  *)
(* call holds each invocation's position, what its test of the cache       *)
(* observed, and how many downloads had been started when it tested.       *)

\* Number of invocations running at once.
Invocations == 2

\* A check that waits while another invocation is downloading.
waits_for_download(procs, p) ==
    \A q \in DOMAIN procs : q = p \/ procs[q].pc # "download_model"

\* ensure_model_cached, lines 263-265: nothing is acquired or waited for
\* before the cache is tested.
may_test_cache(procs, p) == TRUE

RaceInit ==
    /\ pc = "idle"
    /\ args = NoArgs
    /\ input_path = NoPath
    /\ model_size = "auto"
    /\ downloaded_file = NoPath
    /\ temp_audio = NoPath
    /\ word_timestamps = <<>>
    /\ segments_list = "none"
    /\ progress = NoProgress
    /\ files = {}
    /\ \E c \in [CacheNames -> EntryKinds] :
          cache = [m \in ModelNames |-> IF m \in CacheNames THEN c[m] ELSE "absent"]
    /\ initial = [files |-> files, cache |-> cache]
    /\ stages = <<>>
    /\ errors = <<>>
    /\ model_downloads = 0
    /\ written = {}
    /\ outcome = NoOutcome
    /\ \E ps \in [1..Invocations ->
                    [pc : {"line_307"}, model_size : CacheNames,
                     force_download : BOOLEAN, observed : {"nothing"},
                     tested_at : {0}, downloads : {0}]] :
          call = [fn |-> "race", procs |-> ps]

\* Line 307 of invocation p.
RaceOuterTest(p) ==
    /\ call.fn = "race" /\ call.procs[p].pc = "line_307"
    /\ call' = [call EXCEPT !.procs[p].pc =
                   IF uses_cache(call.procs[p].force_download, cache,
                                 call.procs[p].model_size)
                   THEN "done" ELSE "line_265"]
    /\ UNCHANGED pipeVars

\* Line 265 of invocation p.
RaceEnsureTest(p) ==
    /\ call.fn = "race" /\ call.procs[p].pc = "line_265"
    /\ may_test_cache(call.procs, p)
    /\ call' = [call EXCEPT
                   !.procs[p].tested_at = model_downloads,
                   !.procs[p].observed =
                       IF is_model_cached(cache, call.procs[p].model_size)
                       THEN "cached" ELSE "not cached",
                   !.procs[p].pc =
                       IF is_model_cached(cache, call.procs[p].model_size)
                       THEN "done" ELSE "download_model"]
    /\ UNCHANGED pipeVars

\* Lines 270-273 of invocation p.
RaceDownload(p) ==
    /\ call.fn = "race" /\ call.procs[p].pc = "download_model"
    /\ model_downloads' = model_downloads + 1
    /\ \E ok \in BOOLEAN :
          cache' = IF ok THEN download_model(cache, call.procs[p].model_size)
                   ELSE cache
    /\ call' = [call EXCEPT !.procs[p].pc = "done",
                            !.procs[p].downloads = @ + 1]
    /\ UNCHANGED <<pc, args, input_path, model_size, downloaded_file,
                   temp_audio, word_timestamps, segments_list, progress,
                   files, initial, stages, errors, written, outcome>>

RaceNext ==
    \E p \in 1..Invocations :
        \/ RaceOuterTest(p)
        \/ RaceEnsureTest(p)
        \/ RaceDownload(p)

SpecRace == RaceInit /\ [][RaceNext]_vars

\* C13: the cache has no mutual exclusion.  An invocation about to test the
\* cache is never held back by another that is between its own test and its
\* download, and an invocation downloads whenever its own test found the
\* model missing, whatever the others do.
CacheHasNoMutualExclusion ==
    call.fn = "race" =>
        \A p \in DOMAIN call.procs :
            /\ call.procs[p].pc = "line_265" => ENABLED RaceEnsureTest(p)
            /\ call.procs[p].pc = "download_model" =>
                   call.procs[p].observed = "not cached"
            /\ (call.procs[p].pc = "done"
                    /\ call.procs[p].observed = "not cached") =>
                   call.procs[p].downloads = 1

\* Two invocations for the same model both tested the cache before any
\* download had started, both saw the model missing and both downloaded it.
BothDownloaded ==
    /\ call.fn = "race"
    /\ call.procs[1].model_size = call.procs[2].model_size
    /\ call.procs[1].observed = "not cached"
    /\ call.procs[2].observed = "not cached"
    /\ call.procs[1].tested_at = 0 /\ call.procs[2].tested_at = 0
    /\ call.procs[1].downloads = 1 /\ call.procs[2].downloads = 1
    /\ model_downloads >= 2

----------------------------------------------------------------------------
(* The cache admin tool (clean_cache.py).  cache is the content of the     *)
(* cache directory; call holds whether the directory exists, the number of *)
(* operations run and the last operation with its result.                  *)

\* Most operations of the admin tool in one behaviour.
MaxAdminOps == 2

AdminNames == CacheNames \cup {"tiny"}
\* What the user types at the confirmation prompt.
Answers == {"y", "Y", "n", "yes", ""}

\* An answer taken as consent unless it is "n".
confirmed_unless_no(answer) == lower(answer) # "n"

\* Lines 64 and 84: confirm.lower() != 'y' cancels.
confirmed(answer) == lower(answer) = "y"

\* A listing of every entry of the cache directory.
list_every_entry(root, c) ==
    IF ~root THEN {} ELSE {n \in DOMAIN c : c[n] # "absent"}

\* list_cached_models, lines 32-52: the keys of the result.
list_cached_models(root, c) ==
    IF ~root THEN {} ELSE {n \in DOMAIN c : c[n] = "model"}

NoOp == [op |-> "none", name |-> "", force |-> FALSE, answer |-> "",
         returned |-> FALSE, listed |-> {}, before |-> <<>>]

AdminInit ==
    /\ pc = "idle"
    /\ args = NoArgs
    /\ input_path = NoPath
    /\ model_size = "auto"
    /\ downloaded_file = NoPath
    /\ temp_audio = NoPath
    /\ word_timestamps = <<>>
    /\ segments_list = "none"
    /\ progress = NoProgress
    /\ files = {}
    /\ \E root \in BOOLEAN, c \in [CacheNames -> EntryKinds] :
          /\ cache = [m \in ModelNames |->
                         IF root /\ m \in CacheNames THEN c[m] ELSE "absent"]
          /\ call = [fn |-> "admin", root |-> root, ops |-> 0, last |-> NoOp]
    /\ initial = [files |-> files, cache |-> cache]
    /\ stages = <<>>
    /\ errors = <<>>
    /\ model_downloads = 0
    /\ written = {}
    /\ outcome = NoOutcome

AdminUnchanged ==
    UNCHANGED <<pc, args, input_path, model_size, downloaded_file, temp_audio,
                word_timestamps, segments_list, progress, files, initial,
                stages, errors, model_downloads, written, outcome>>

\* remove_model, lines 54-74.  shutil.rmtree raises on a plain file, and
\* when it fails part of the way the directory is left with or without its
\* weight file.
RemoveModel ==
    /\ call.fn = "admin" /\ call.ops < MaxAdminOps
    /\ \E name \in AdminNames, force \in BOOLEAN, answer \in Answers,
          left \in {"absent", "dir", "model"} :
          LET go == cache[name] # "absent" /\ (force \/ confirmed(answer))
              after == IF ~go \/ cache[name] = "file" THEN cache[name]
                       ELSE IF cache[name] = "dir" /\ left = "model" THEN "dir"
                       ELSE left
          IN  /\ cache' = [cache EXCEPT ![name] = after]
              /\ call' = [call EXCEPT
                    !.ops = @ + 1,
                    !.last = [op |-> "remove_model", name |-> name,
                              force |-> force, answer |-> answer,
                              returned |-> go /\ after = "absent",
                              listed |-> {}, before |-> cache]]
    /\ AdminUnchanged

\* clear_all_cache, lines 76-103.  The loop removes the entries one by one;
\* when a removal fails the entries removed so far are gone and False is
\* returned.
ClearAllCache ==
    /\ call.fn = "admin" /\ call.ops < MaxAdminOps
    /\ \E force \in BOOLEAN, answer \in Answers,
          gone \in SUBSET {n \in DOMAIN cache : cache[n] # "absent"} :
          LET go == call.root /\ (force \/ confirmed(answer))
              removed == IF go THEN gone ELSE {}
          IN  /\ cache' = [n \in DOMAIN cache |->
                              IF n \in removed THEN "absent" ELSE cache[n]]
              /\ call' = [call EXCEPT
                    !.ops = @ + 1,
                    !.last = [op |-> "clear_all_cache", name |-> "",
                              force |-> force, answer |-> answer,
                              returned |-> go /\ \A n \in DOMAIN cache :
                                                    cache'[n] = "absent",
                              listed |-> {}, before |-> cache]]
    /\ AdminUnchanged

\* show_cache_info, lines 105-130: list_cached_models and nothing else.
ListCache ==
    /\ call.fn = "admin" /\ call.ops < MaxAdminOps
    /\ call' = [call EXCEPT
          !.ops = @ + 1,
          !.last = [NoOp EXCEPT !.op = "list_cached_models",
                                !.listed = list_cached_models(call.root, cache),
                                !.before = cache]]
    /\ UNCHANGED pipeVars

AdminNext == RemoveModel \/ ClearAllCache \/ ListCache

SpecAdmin == AdminInit /\ [][AdminNext]_vars

\* C14: remove_model and clear_all_cache delete only with force or the
\* answer y or Y; otherwise they return False and leave the cache as it was;
\* remove_model changes no entry but the named one.
DeletesOnlyOnRequest ==
    (call.fn = "admin"
        /\ call.last.op \in {"remove_model", "clear_all_cache"}) =>
        /\ (~call.last.force /\ call.last.answer \notin {"y", "Y"}) =>
              /\ call.last.returned = FALSE
              /\ cache = call.last.before
        /\ call.last.op = "remove_model" =>
              \A n \in DOMAIN cache :
                  n # call.last.name => cache[n] = call.last.before[n]

\* remove_model without force, answered Y, removed the named model and left
\* the other one.
RemovedAfterYes ==
    /\ call.fn = "admin"
    /\ call.last.op = "remove_model"
    /\ ~call.last.force /\ call.last.answer = "Y"
    /\ call.last.returned
    /\ call.last.before[call.last.name] = "model"
    /\ cache[call.last.name] = "absent"
    /\ \E n \in DOMAIN cache : cache[n] = "model"

----------------------------------------------------------------------------
(* Further properties of process_media                                     *)

\* C15: the progress tracker's current_step never exceeds its total_steps,
\* and after a successful run the two are equal.
ProgressWithinTotal ==
    /\ progress.current_step <= progress.total_steps
    /\ (pc = "exit" /\ "cleanup" \in Range(stages)) =>
           progress.current_step = progress.total_steps


\* C16: process_media deletes no file that existed before the run started,
\* neither a file of the output directory nor a local input file.
KeepsEarlierFiles ==
    pc # "idle" => initial.files \subseteq files

----------------------------------------------------------------------------
(* The pipeline's and the admin tool's view of one cache                   *)

\* C17 as stated: list_cached_models lists exactly the ids for which
\* is_model_cached is true.
ListingAgreesWithPipeline ==
    (call.fn = "admin" /\ call.last.op = "list_cached_models") =>
        call.last.listed =
            {id \in DOMAIN call.last.before :
                is_model_cached(call.last.before, id)}

\* C17, amended: every id list_cached_models lists satisfies
\* is_model_cached, and an id that satisfies is_model_cached is listed
\* exactly when its directory holds a weight file.
ListedAreCached ==
    (call.fn = "admin" /\ call.last.op = "list_cached_models") =>
        \A id \in DOMAIN call.last.before :
            /\ id \in call.last.listed => is_model_cached(call.last.before, id)
            /\ is_model_cached(call.last.before, id) =>
                  (id \in call.last.listed <=> call.last.before[id] = "model")

\* A listing that shows one model while another id, a directory without a
\* weight file, counts as cached for the pipeline.
CachedButNotListed ==
    /\ call.fn = "admin"
    /\ call.last.op = "list_cached_models"
    /\ call.last.listed # {}
    /\ \E id \in DOMAIN call.last.before :
          /\ is_model_cached(call.last.before, id)
          /\ id \notin call.last.listed

====
